---- MODULE Spec2Model ----
(***************************************************************************)
(* Model of four facilities of openfort-react:                             *)
(*   - the shared Openfort client (openfort/core/client.ts):               *)
(*     createOpenfortClient, getDefaultClient, setDefaultClient;           *)
(*   - the EmailVerification page (components/Pages/EmailVerification);    *)
(*   - getDefaultTransports (components/Openfort/types.ts);                *)
(*   - the useConnect hook (hooks/useConnect.tsx).                         *)
(* JavaScript runs every function and every effect body to its end (or to  *)
(* its first await) before anything else runs, so each of them is one      *)
(* atomic action here.                                                     *)
(***************************************************************************)
EXTENDS Integers, Sequences, FiniteSets, TLC

VARIABLES
    defaultClient,   \* client.ts: let defaultClient: OpenfortClient | null
    heap,            \* the OpenfortClient objects constructed so far: heap[i] is the config of object i
    trace,           \* the calls made to client.ts so far, each with what it returned
    href,            \* window.location.href
    storage,         \* localStorage[emailToVerifyLocalStorageKey]: a string or null
    route,           \* the route of the Openfort context (setRoute)
    mounted,         \* the EmailVerification component is mounted
    loading,         \* useState(true)
    shouldSendEmailVerification,  \* useState<false | string>(false)
    emailInStorage,  \* useMemo(() => localStorage.getItem(...), [])
    verificationResponse,         \* useState<VerificationResponse | null>(null)
    screen,          \* what the last render of the component returned
    dirty,           \* a state update waits for a re-render
    effects,         \* the effects that wait to run after the last render, in order
    sendDep,         \* the [shouldSendEmailVerification] dependency as of the last render
    url,             \* the URL object the mount effect's closures hold
    request,         \* the promise of requestEmailVerification: none, pending, resolved, rejected
    verify,          \* the promise of verifyEmail: none, pending, resolved, rejected
    calls,           \* the calls made to the SDK, localStorage, history, setRoute and the log, in order
    atMount,         \* href and storage as they were when the component mounted
    envSteps,        \* how often the user and the rest of the application acted
    props,           \* the argument of getDefaultTransports: chains, alchemyId, infuraId
    transports,      \* what getDefaultTransports returned, once it was called
    connectProps,    \* the props of useConnect
    initialChainId,  \* context.uiConfig?.initialChainId
    wagmiOptions,    \* what useConnect passed to wagmi's useConnect, once it was called
    attempts,        \* the connections asked of wagmi, each with its chain and its outcome
    logged,          \* the calls of context.log, in order
    invoked          \* the mutation callbacks wagmi has invoked, in order

registryVars == <<defaultClient, heap, trace>>

flowVars == <<href, storage, route, mounted, loading, shouldSendEmailVerification,
              emailInStorage, verificationResponse, screen, dirty, effects, sendDep, url,
              request, verify, calls, atMount, envSteps>>

transportVars == <<props, transports>>

connectVars == <<connectProps, initialChainId, wagmiOptions, attempts, logged, invoked>>

vars == <<defaultClient, heap, trace, href, storage, route, mounted, loading,
          shouldSendEmailVerification, emailInStorage, verificationResponse, screen,
          dirty, effects, sendDep, url, request, verify, calls, atMount, envSteps,
          props, transports, connectProps, initialChainId, wagmiOptions, attempts,
          logged, invoked>>

-----------------------------------------------------------------------------
(* Bounds *)

\* number of calls to client.ts in one behaviour
MaxCalls == 5

\* number of clicks by the user in one behaviour
MaxClicks == 1

\* number of changes of the URL by the rest of the application in one behaviour
MaxUrlChanges == 1

\* number of chains given to getDefaultTransports
MaxChains == 2

\* number of connections asked for in one behaviour
MaxConnects == 2

-----------------------------------------------------------------------------
(* The shared client: openfort/core/client.ts *)

\* null
Null == 0

\* the configurations a caller may pass
Configs == {"cfgA", "cfgB"}

\* getDefaultClient() called without its optional argument
NoConfig == "undefined"

NoError == ""

UninitializedError == "Openfort client not initialized. Make sure to wrap your app with OpenfortProvider."

Last(s) == s[Len(s)]

\* new OpenfortClient(config): a new object, distinct from every existing one
NewOpenfortClient(h, config) == Append(h, config)

Call(op, cfg, h, ret, err, built) ==
    [op |-> op, cfg |-> cfg, h |-> h, ret |-> ret, err |-> err, built |-> built]

CanCall == Len(trace) < MaxCalls

\* createOpenfortClient(config) as if it also stored the instance it returns
CreateStoresDefault(config) ==
    /\ CanCall
    /\ heap' = NewOpenfortClient(heap, config)
    /\ defaultClient' = Len(heap')
    /\ trace' = Append(trace, Call("create", config, Null, Len(heap'), NoError, TRUE))

createOpenfortClient(config) ==
    /\ CanCall
    /\ heap' = NewOpenfortClient(heap, config)
    /\ trace' = Append(trace, Call("create", config, Null, Len(heap'), NoError, TRUE))
    /\ UNCHANGED defaultClient

\* getDefaultClient(options) without the !defaultClient test of its first if
GetAlwaysInit(options) ==
    LET build == options # NoConfig
        heap1 == IF build THEN NewOpenfortClient(heap, options) ELSE heap
        dc1   == IF build THEN Len(heap1) ELSE defaultClient
    IN  /\ CanCall
        /\ heap' = heap1
        /\ defaultClient' = dc1
        /\ trace' = Append(trace,
               IF dc1 = Null
               THEN Call("get", options, Null, Null, UninitializedError, FALSE)
               ELSE Call("get", options, Null, dc1, NoError, build))

\* getDefaultClient(options) without the "&& options" test of its first if
GetInitWithoutOptions(options) ==
    LET build == defaultClient = Null
        heap1 == IF build THEN NewOpenfortClient(heap, options) ELSE heap
        dc1   == IF build THEN Len(heap1) ELSE defaultClient
    IN  /\ CanCall
        /\ heap' = heap1
        /\ defaultClient' = dc1
        /\ trace' = Append(trace,
               IF dc1 = Null
               THEN Call("get", options, Null, Null, UninitializedError, FALSE)
               ELSE Call("get", options, Null, dc1, NoError, build))

getDefaultClient(options) ==
    LET build == defaultClient = Null /\ options # NoConfig
        heap1 == IF build THEN NewOpenfortClient(heap, options) ELSE heap
        dc1   == IF build THEN Len(heap1) ELSE defaultClient
    IN  /\ CanCall
        /\ heap' = heap1
        /\ defaultClient' = dc1
        /\ trace' = Append(trace,
               IF dc1 = Null
               THEN Call("get", options, Null, Null, UninitializedError, FALSE)
               ELSE Call("get", options, Null, dc1, NoError, build))

\* setDefaultClient(client) that keeps a client already stored
SetIfAbsent(client) ==
    /\ CanCall
    /\ defaultClient' = IF defaultClient = Null THEN client ELSE defaultClient
    /\ trace' = Append(trace, Call("set", NoConfig, client, Null, NoError, FALSE))
    /\ UNCHANGED heap

setDefaultClient(client) ==
    /\ CanCall
    /\ defaultClient' = client
    /\ trace' = Append(trace, Call("set", NoConfig, client, Null, NoError, FALSE))
    /\ UNCHANGED heap

Create == \E config \in Configs : createOpenfortClient(config) /\ UNCHANGED <<flowVars, transportVars, connectVars>>

GetOrInit ==
    \E options \in Configs \cup {NoConfig} : getDefaultClient(options) /\ UNCHANGED <<flowVars, transportVars, connectVars>>

\* the handle given to setDefaultClient is an OpenfortClient that exists
Set == \E client \in 1..Len(heap) : setDefaultClient(client) /\ UNCHANGED <<flowVars, transportVars, connectVars>>

-----------------------------------------------------------------------------
(* Strings and URLs.  A string is a sequence of tokens: a token is one     *)
(* character ("?", "&", "=", "#", "@", "+", " "), one percent escape       *)
(* ("%40"), or a run of letters and digits ("state", "true", "a").         *)

\* null (and the false of useState<false | string>), unequal to every string
JsNull == <<"null value">>

\* !s for a string-or-null s
Falsy(s) == s = JsNull \/ s = <<>>

IndexOf(s, t) ==
    IF \E i \in 1..Len(s) : s[i] = t
    THEN CHOOSE i \in 1..Len(s) : s[i] = t /\ \A j \in 1..(i - 1) : s[j] # t
    ELSE Null

RECURSIVE Split(_, _)
\* s.split(sep), sep one token
Split(s, sep) ==
    LET i == IndexOf(s, sep)
    IN  IF i = Null THEN <<s>>
        ELSE <<SubSeq(s, 1, i - 1)>> \o Split(SubSeq(s, i + 1, Len(s)), sep)

\* String.prototype.replace(pattern, replacement) with string arguments:
\* the first occurrence of pattern only
StringReplace(s, pattern, replacement) ==
    LET n == Len(pattern)
        hits == {i \in 1..(Len(s) - n + 1) : SubSeq(s, i, i + n - 1) = pattern}
    IN  IF hits = {} THEN s
        ELSE LET i == CHOOSE x \in hits : \A y \in hits : x <= y
             IN  SubSeq(s, 1, i - 1) \o replacement \o SubSeq(s, i + n, Len(s))

\* application/x-www-form-urlencoded decoding of one token
DecodeToken(t) ==
    CASE t = "+"   -> " "
      [] t = "%40" -> "@"
      [] t = "%2B" -> "+"
      [] t = "%3F" -> "?"
      [] t = "%3D" -> "="
      [] t = "%26" -> "&"
      [] t = "%23" -> "#"
      [] OTHER     -> t

\* application/x-www-form-urlencoded serialising of one token
EncodeToken(t) ==
    CASE t = " " -> "+"
      [] t = "@" -> "%40"
      [] t = "+" -> "%2B"
      [] t = "?" -> "%3F"
      [] t = "=" -> "%3D"
      [] t = "&" -> "%26"
      [] t = "#" -> "%23"
      [] OTHER   -> t

UrlDecode(s) == [i \in 1..Len(s) |-> DecodeToken(s[i])]

UrlEncode(s) == [i \in 1..Len(s) |-> EncodeToken(s[i])]

\* one name=value piece of a query string
ParsePair(piece) ==
    LET i == IndexOf(piece, "=")
    IN  IF i = Null
        THEN [name |-> UrlDecode(piece), value |-> <<>>]
        ELSE [name |-> UrlDecode(SubSeq(piece, 1, i - 1)),
              value |-> UrlDecode(SubSeq(piece, i + 1, Len(piece)))]

\* the URLSearchParams list of a query string
ParseQuery(query) ==
    LET pieces == SelectSeq(Split(query, "&"), LAMBDA piece : piece # <<>>)
    IN  [i \in 1..Len(pieces) |-> ParsePair(pieces[i])]

RECURSIVE SerializeParams(_)
\* URLSearchParams.toString()
SerializeParams(params) ==
    IF params = <<>> THEN <<>>
    ELSE UrlEncode(Head(params).name) \o <<"=">> \o UrlEncode(Head(params).value)
         \o (IF Len(params) > 1 THEN <<"&">> ELSE <<>>)
         \o SerializeParams(Tail(params))

\* new URL(text): text is an absolute URL whose first token is the origin
NewURL(text) ==
    LET h     == IndexOf(text, "#")
        front == IF h = Null THEN text ELSE SubSeq(text, 1, h - 1)
        q     == IndexOf(front, "?")
        query == IF q = Null THEN JsNull ELSE SubSeq(front, q + 1, Len(front))
    IN  [origin   |-> <<text[1]>>,
         pathname |-> IF q = Null THEN Tail(front) ELSE SubSeq(front, 2, q - 1),
         query    |-> query,
         params   |-> IF q = Null THEN <<>> ELSE ParseQuery(query),
         hash     |-> IF h = Null THEN JsNull ELSE SubSeq(text, h + 1, Len(text))]

\* url.toString()
URLToString(u) ==
    u.origin \o u.pathname
    \o (IF u.query = JsNull THEN <<>> ELSE <<"?">> \o u.query)
    \o (IF u.hash = JsNull THEN <<>> ELSE <<"#">> \o u.hash)

\* url.searchParams.get(name)
SearchParamsGet(u, name) ==
    LET hits == SelectSeq(u.params, LAMBDA p : p.name = name)
    IN  IF hits = <<>> THEN JsNull ELSE Head(hits).value

\* what a change of url.searchParams does to the URL: its query becomes the
\* serialised list, or null when the list is empty
UpdateQuery(u, params) ==
    [u EXCEPT !.params = params,
                !.query = IF params = <<>> THEN JsNull ELSE SerializeParams(params)]

\* url.searchParams.append(name, value)
SearchParamsAppend(u, name, value) ==
    UpdateQuery(u, Append(u.params, [name |-> name, value |-> value]))

\* url.searchParams.delete(name)
SearchParamsDelete(u, name) ==
    UpdateQuery(u, SelectSeq(u.params, LAMBDA p : p.name # name))

\* window.location.origin and window.location.pathname
LocationOrigin(text) == NewURL(text).origin

LocationPathname(text) == NewURL(text).pathname

-----------------------------------------------------------------------------
(* The EmailVerification page: components/Pages/EmailVerification/index.tsx *)

FlagName == <<"openfortEmailVerificationUI">>

StateName == <<"state">>

EmailName == <<"email">>

\* routes.EMAIL_LOGIN and routes.EMAIL_VERIFICATION
EMAIL_LOGIN == "emailLogin"

EMAIL_VERIFICATION == "emailVerification"

VerifyErrorText == <<"There was an error verifying your email. Please try again.">>

\* verificationResponse: null, {success: true}, {success: false, error}
NoResponse == [present |-> FALSE, success |-> FALSE, error |-> <<>>]

SuccessResponse == [present |-> TRUE, success |-> TRUE, error |-> <<>>]

\* {success: false} without its error text
FailureResponseNoError == [present |-> TRUE, success |-> FALSE, error |-> <<>>]

FailureResponse == [present |-> TRUE, success |-> FALSE, error |-> VerifyErrorText]

\* one call to a collaborator; by is "flow" for the component's effects and
\* promise callbacks, "user" for the onClick handlers
Invoke(api, by, a1, a2) == [api |-> api, by |-> by, a1 |-> a1, a2 |-> a2]

\* the component's return value without the if (loading) branch
RenderOutputNoLoader(l, response, email) ==
    IF response.present
    THEN [kind  |-> "DONE",
          title |-> IF response.success THEN <<"Email verified">>
                    ELSE <<"Email verification failed">>,
          body  |-> IF response.error # <<>> THEN response.error
                    ELSE <<"Your email has been verified.">>]
    ELSE [kind |-> "AWAITING_USER_CHECK", title |-> <<"Email sent">>, body |-> email]

\* the component's return value for the given state
RenderOutput(l, response, email) ==
    IF l
    THEN [kind |-> "CHECKING", title |-> <<"Checking if account is verified">>, body |-> <<>>]
    ELSE IF response.present
    THEN [kind  |-> "DONE",
          title |-> IF response.success THEN <<"Email verified">>
                    ELSE <<"Email verification failed">>,
          body  |-> IF response.error # <<>> THEN response.error
                    ELSE <<"Your email has been verified.">>]
    ELSE [kind |-> "AWAITING_USER_CHECK", title |-> <<"Email sent">>, body |-> email]

\* the redirect URL of sendEmailVerification, built from the whole current URL
RedirectUrlFromHref(location, email) ==
    URLToString(
        SearchParamsAppend(
            SearchParamsAppend(NewURL(location), FlagName, <<"true">>),
            EmailName, email))

\* the redirect URL of sendEmailVerification
RedirectUrl(location, email) ==
    URLToString(
        SearchParamsAppend(
            SearchParamsAppend(
                NewURL(LocationOrigin(location) \o LocationPathname(location)),
                FlagName, <<"true">>),
            EmailName, email))

\* sendEmailVerification(email): the calls it makes
SendEmailVerificationCalls(location, email) ==
    IF Falsy(email)
    THEN <<Invoke("log", "flow", <<"No linked account found">>, <<>>)>>
    ELSE <<Invoke("requestEmailVerification", "flow", email, RedirectUrl(location, email))>>

\* the effect on [shouldSendEmailVerification], sending for the email found in
\* local storage instead of the one the mount effect decided to send for
SendEffectFromStorage ==
    /\ mounted
    /\ effects # <<>>
    /\ Head(effects) = "send"
    /\ effects' = Tail(effects)
    /\ IF Falsy(emailInStorage)
       THEN UNCHANGED <<calls, request>>
       ELSE /\ calls' = calls \o SendEmailVerificationCalls(href, emailInStorage)
            /\ request' = "pending"
    /\ UNCHANGED <<href, storage, route, mounted, loading, shouldSendEmailVerification,
                   emailInStorage, verificationResponse, screen, dirty, sendDep, url,
                   verify, atMount, envSteps>>
    /\ UNCHANGED <<registryVars, transportVars, connectVars>>

\* the effect on [shouldSendEmailVerification]
SendEffect ==
    /\ mounted
    /\ effects # <<>>
    /\ Head(effects) = "send"
    /\ effects' = Tail(effects)
    /\ IF Falsy(shouldSendEmailVerification)
       THEN UNCHANGED <<calls, request>>
       ELSE /\ calls' = calls \o SendEmailVerificationCalls(href, shouldSendEmailVerification)
            /\ request' = "pending"
    /\ UNCHANGED <<href, storage, route, mounted, loading, shouldSendEmailVerification,
                   emailInStorage, verificationResponse, screen, dirty, sendDep, url,
                   verify, atMount, envSteps>>
    /\ UNCHANGED <<registryVars, transportVars, connectVars>>

\* the URL the mount effect parses, without the replace
FixedUrlNoReplace(location) == NewURL(location)

\* the URL the mount effect parses
FixedUrl(location) ==
    NewURL(StringReplace(location, <<"?", "state", "=">>, <<"&", "state", "=">>))

\* the branch the mount effect takes, the request branch taken although no
\* email is stored
MountBranchIgnoringStorage(location, stored) ==
    LET u == FixedUrl(location)
    IN  IF Falsy(SearchParamsGet(u, FlagName)) THEN "send"
        ELSE IF Falsy(SearchParamsGet(u, StateName)) THEN "abort"
        ELSE IF Falsy(SearchParamsGet(u, EmailName)) THEN "loginNoEmail"
        ELSE "verify"

\* the branch the mount effect takes, without its test of state
MountBranchNoStateCheck(location, stored) ==
    LET u == FixedUrl(location)
    IN  IF Falsy(SearchParamsGet(u, FlagName))
        THEN IF Falsy(stored) THEN "login" ELSE "send"
        ELSE IF Falsy(SearchParamsGet(u, EmailName)) THEN "loginNoEmail"
        ELSE "verify"

\* the branch the mount effect takes, email tested before state
MountBranchEmailFirst(location, stored) ==
    LET u == FixedUrl(location)
    IN  IF Falsy(SearchParamsGet(u, FlagName))
        THEN IF Falsy(stored) THEN "login" ELSE "send"
        ELSE IF Falsy(SearchParamsGet(u, EmailName)) THEN "loginNoEmail"
        ELSE IF Falsy(SearchParamsGet(u, StateName)) THEN "abort"
        ELSE "verify"

\* the branch the mount effect takes, without its test of email
MountBranchNoEmailCheck(location, stored) ==
    LET u == FixedUrl(location)
    IN  IF Falsy(SearchParamsGet(u, FlagName))
        THEN IF Falsy(stored) THEN "login" ELSE "send"
        ELSE IF Falsy(SearchParamsGet(u, StateName)) THEN "abort"
        ELSE "verify"

\* the branch the mount effect takes
MountBranch(location, stored) ==
    LET u == FixedUrl(location)
    IN  IF Falsy(SearchParamsGet(u, FlagName))
        THEN IF Falsy(stored) THEN "login" ELSE "send"
        ELSE IF Falsy(SearchParamsGet(u, StateName)) THEN "abort"
        ELSE IF Falsy(SearchParamsGet(u, EmailName)) THEN "loginNoEmail"
        ELSE "verify"

\* the effect on []
MountEffect ==
    /\ mounted
    /\ effects # <<>>
    /\ Head(effects) = "mount"
    /\ effects' = Tail(effects)
    /\ url' = FixedUrl(href)
    /\ LET branch == MountBranch(href, emailInStorage)
           state  == SearchParamsGet(url', StateName)
           email  == SearchParamsGet(url', EmailName)
       IN  CASE branch \in {"login", "loginNoEmail"} ->
                   /\ route' = EMAIL_LOGIN
                   /\ calls' = Append(calls, Invoke("setRoute", "flow", <<EMAIL_LOGIN>>, <<>>))
                   /\ UNCHANGED <<storage, loading, shouldSendEmailVerification, dirty, verify>>
             [] branch = "send" ->
                   /\ shouldSendEmailVerification' = emailInStorage
                   /\ storage' = JsNull
                   /\ calls' = Append(calls, Invoke("removeItem", "flow", <<>>, <<>>))
                   /\ loading' = FALSE
                   /\ dirty' = TRUE
                   /\ UNCHANGED <<route, verify>>
             [] branch = "abort" ->
                   /\ calls' = Append(calls,
                          Invoke("console.error", "flow", <<"No state found in URL">>, <<>>))
                   /\ UNCHANGED <<storage, route, loading, shouldSendEmailVerification,
                                  dirty, verify>>
             [] branch = "verify" ->
                   /\ calls' = calls \o
                          <<Invoke("log", "flow", <<"EmailVerification">>, state \o <<",">> \o email),
                            Invoke("verifyEmail", "flow", email, state)>>
                   /\ verify' = "pending"
                   /\ UNCHANGED <<storage, route, loading, shouldSendEmailVerification, dirty>>
    /\ UNCHANGED <<href, mounted, emailInStorage, verificationResponse, screen, sendDep,
                   request, atMount, envSteps>>
    /\ UNCHANGED <<registryVars, transportVars, connectVars>>

\* a re-render after state updates; the effect on [shouldSendEmailVerification]
\* is queued when its dependency changed in this render
Render ==
    /\ mounted
    /\ dirty
    /\ effects = <<>>
    /\ dirty' = FALSE
    /\ screen' = RenderOutput(loading, verificationResponse, emailInStorage)
    /\ sendDep' = shouldSendEmailVerification
    /\ effects' = IF shouldSendEmailVerification # sendDep THEN <<"send">> ELSE <<>>
    /\ UNCHANGED <<href, storage, route, mounted, loading, shouldSendEmailVerification,
                   emailInStorage, verificationResponse, url, request, verify, calls,
                   atMount, envSteps>>
    /\ UNCHANGED <<registryVars, transportVars, connectVars>>

\* requestEmailVerification(...) resolves: no callback is attached to that
RequestResolves ==
    /\ request = "pending"
    /\ request' = "resolved"
    /\ UNCHANGED <<href, storage, route, mounted, loading, shouldSendEmailVerification,
                   emailInStorage, verificationResponse, screen, dirty, effects, sendDep,
                   url, verify, calls, atMount, envSteps>>
    /\ UNCHANGED <<registryVars, transportVars, connectVars>>

\* a rejection of requestEmailVerification(...) shown as a failed verification
RequestRejectsShowsFailure ==
    /\ request = "pending"
    /\ request' = "rejected"
    /\ calls' = Append(calls,
           Invoke("log", "flow", <<"Error requesting email verification">>, <<"e">>))
    /\ verificationResponse' = IF mounted THEN FailureResponse ELSE verificationResponse
    /\ dirty' = mounted
    /\ UNCHANGED <<href, storage, route, mounted, loading, shouldSendEmailVerification,
                   emailInStorage, screen, effects, sendDep, url, verify, atMount,
                   envSteps>>
    /\ UNCHANGED <<registryVars, transportVars, connectVars>>

\* requestEmailVerification(...) rejects: the .catch callback
RequestRejects ==
    /\ request = "pending"
    /\ request' = "rejected"
    /\ calls' = Append(calls,
           Invoke("log", "flow", <<"Error requesting email verification">>, <<"e">>))
    /\ UNCHANGED <<href, storage, route, mounted, loading, shouldSendEmailVerification,
                   emailInStorage, verificationResponse, screen, dirty, effects, sendDep,
                   url, verify, atMount, envSteps>>
    /\ UNCHANGED <<registryVars, transportVars, connectVars>>

\* removeParams() clearing the whole query string
RemoveParamsDropsQuery(u) == UpdateQuery(u, <<>>)

\* removeParams(): the URL object of the closure without the three parameters
RemoveParams(u) ==
    SearchParamsDelete(
        SearchParamsDelete(SearchParamsDelete(u, StateName), FlagName),
        EmailName)

\* the rest of the async function without the finally block's
\* setLoading(false)
VerifySettlesKeepsLoading(outcome) ==
    /\ verify = "pending"
    /\ verify' = outcome
    /\ url' = RemoveParams(url)
    /\ href' = URLToString(url')
    /\ calls' = calls
           \o (IF outcome = "rejected"
               THEN <<Invoke("log", "flow", <<"Error verifying email">>, <<"e">>)>>
               ELSE <<>>)
           \o <<Invoke("replaceState", "flow", URLToString(url'), <<>>)>>
    /\ IF mounted
       THEN /\ verificationResponse' =
                   IF outcome = "resolved" THEN SuccessResponse ELSE FailureResponse
            /\ dirty' = TRUE
       ELSE UNCHANGED <<verificationResponse, dirty>>
    /\ UNCHANGED <<storage, route, mounted, loading, shouldSendEmailVerification,
                   emailInStorage, screen, effects, sendDep, request, atMount, envSteps>>
    /\ UNCHANGED <<registryVars, transportVars, connectVars>>

\* the rest of the async function with removeParams() working on the URL
\* of the moment instead of the URL object of the closure
VerifySettlesFromCurrentUrl(outcome) ==
    /\ verify = "pending"
    /\ verify' = outcome
    /\ url' = RemoveParams(FixedUrl(href))
    /\ href' = URLToString(url')
    /\ calls' = calls
           \o (IF outcome = "rejected"
               THEN <<Invoke("log", "flow", <<"Error verifying email">>, <<"e">>)>>
               ELSE <<>>)
           \o <<Invoke("replaceState", "flow", URLToString(url'), <<>>)>>
    /\ IF mounted
       THEN /\ verificationResponse' =
                   IF outcome = "resolved" THEN SuccessResponse ELSE FailureResponse
            /\ loading' = FALSE
            /\ dirty' = TRUE
       ELSE UNCHANGED <<verificationResponse, loading, dirty>>
    /\ UNCHANGED <<storage, route, mounted, shouldSendEmailVerification, emailInStorage,
                   screen, effects, sendDep, request, atMount, envSteps>>
    /\ UNCHANGED <<registryVars, transportVars, connectVars>>

\* the rest of the async function once verifyEmail has settled: try or
\* catch, then finally.  A state update of an unmounted component is dropped.
VerifySettles(outcome) ==
    /\ verify = "pending"
    /\ verify' = outcome
    /\ url' = RemoveParams(url)
    /\ href' = URLToString(url')
    /\ calls' = calls
           \o (IF outcome = "rejected"
               THEN <<Invoke("log", "flow", <<"Error verifying email">>, <<"e">>)>>
               ELSE <<>>)
           \o <<Invoke("replaceState", "flow", URLToString(url'), <<>>)>>
    /\ IF mounted
       THEN /\ verificationResponse' =
                   IF outcome = "resolved" THEN SuccessResponse ELSE FailureResponse
            /\ loading' = FALSE
            /\ dirty' = TRUE
       ELSE UNCHANGED <<verificationResponse, loading, dirty>>
    /\ UNCHANGED <<storage, route, mounted, shouldSendEmailVerification, emailInStorage,
                   screen, effects, sendDep, request, atMount, envSteps>>
    /\ UNCHANGED <<registryVars, transportVars, connectVars>>

VerifyResolves == VerifySettles("resolved")

VerifyRejects == VerifySettles("rejected")

\* onClick of the Continue button and of "Use another email"
Click(kind) ==
    /\ mounted
    /\ screen.kind = kind
    /\ envSteps.clicks < MaxClicks
    /\ envSteps' = [envSteps EXCEPT !.clicks = @ + 1]
    /\ route' = EMAIL_LOGIN
    /\ calls' = Append(calls, Invoke("setRoute", "user", <<EMAIL_LOGIN>>, <<>>))
    /\ UNCHANGED <<href, storage, mounted, loading, shouldSendEmailVerification,
                   emailInStorage, verificationResponse, screen, dirty, effects, sendDep,
                   url, request, verify, atMount>>
    /\ UNCHANGED <<registryVars, transportVars, connectVars>>

ClickContinue == Click("DONE")

ClickUseAnotherEmail == Click("AWAITING_USER_CHECK")

\* the application unmounts the page: from then on no effect runs and nothing
\* is rendered; promises that are pending still settle
Unmount ==
    /\ mounted
    /\ mounted' = FALSE
    /\ UNCHANGED <<href, storage, route, loading, shouldSendEmailVerification,
                   emailInStorage, verificationResponse, screen, dirty, effects, sendDep,
                   url, request, verify, calls, atMount, envSteps>>
    /\ UNCHANGED <<registryVars, transportVars, connectVars>>

\* where the rest of the application may take the URL
OtherHrefs == {<<"https://app", "/other">>, <<"https://app", "/other", "?", "tab", "=", "1">>}

\* the rest of the application changes the URL (router, history API), at any
\* time after the mount effect has read it
ExternalUrlChange ==
    /\ \A i \in 1..Len(effects) : effects[i] # "mount"
    /\ envSteps.urlChanges < MaxUrlChanges
    /\ envSteps' = [envSteps EXCEPT !.urlChanges = @ + 1]
    /\ \E h \in OtherHrefs : h # href /\ href' = h
    /\ UNCHANGED <<storage, route, mounted, loading, shouldSendEmailVerification,
                   emailInStorage, verificationResponse, screen, dirty, effects, sendDep,
                   url, request, verify, calls, atMount>>
    /\ UNCHANGED <<registryVars, transportVars, connectVars>>

-----------------------------------------------------------------------------
(* Default transports: components/Openfort/types.ts *)

\* undefined; undefined + "key" is the string "undefinedkey"
Undefined == <<"undefined">>

\* !x for a string-or-undefined x
Missing(x) == x = Undefined \/ x = <<>>

\* constants/chainConfigs: the static table of chains and their provider
\* URLs.  A chain may have URLs for both providers, for one of them, an http
\* or only a webSocket URL, or no rpcUrls at all.
ChainConfigs ==
    << [id |-> 1, hasRpcUrls |-> TRUE,
        alchemy |-> [http |-> <<"https://eth.alchemy/">>, webSocket |-> <<"wss://eth.alchemy/">>],
        infura  |-> [http |-> <<"https://eth.infura/">>, webSocket |-> <<"wss://eth.infura/">>]],
       [id |-> 10, hasRpcUrls |-> TRUE,
        alchemy |-> [http |-> <<"https://opt.alchemy/">>, webSocket |-> Undefined],
        infura  |-> [http |-> Undefined, webSocket |-> Undefined]],
       [id |-> 137, hasRpcUrls |-> TRUE,
        alchemy |-> [http |-> Undefined, webSocket |-> <<"wss://polygon.alchemy/">>],
        infura  |-> [http |-> <<"https://polygon.infura/">>, webSocket |-> Undefined]],
       [id |-> 42161, hasRpcUrls |-> FALSE,
        alchemy |-> [http |-> Undefined, webSocket |-> Undefined],
        infura  |-> [http |-> Undefined, webSocket |-> Undefined]] >>

TableIds == {ChainConfigs[i].id : i \in 1..Len(ChainConfigs)}

\* http(url), webSocket(url); http() is the public transport
Http(u) == [type |-> "http", url |-> u]

WebSocket(u) == [type |-> "webSocket", url |-> u]

Public == Http(Undefined)

\* createTransport({chain, provider, apiKey}) returning no transport for a
\* chain it has no URLs for
createTransportOrNothing(chainId, provider, apiKey) ==
    LET found == SelectSeq(ChainConfigs, LAMBDA c : c.id = chainId)
    IN  IF found # <<>> /\ Head(found).hasRpcUrls /\ provider \in {"alchemy", "infura"}
        THEN LET urls == IF provider = "alchemy" THEN Head(found).alchemy
                         ELSE Head(found).infura
             IN  IF ~Missing(urls.http)
                 THEN <<Http(urls.http \o apiKey)>>
                 ELSE <<WebSocket(urls.webSocket \o apiKey)>>
        ELSE <<>>

\* createTransport({chain, provider, apiKey}), as the one-element list of its result
createTransport(chainId, provider, apiKey) ==
    LET found == SelectSeq(ChainConfigs, LAMBDA c : c.id = chainId)
    IN  IF found # <<>> /\ Head(found).hasRpcUrls /\ provider \in {"alchemy", "infura"}
        THEN LET urls == IF provider = "alchemy" THEN Head(found).alchemy
                         ELSE Head(found).infura
             IN  IF ~Missing(urls.http)
                 THEN <<Http(urls.http \o apiKey)>>
                 ELSE <<WebSocket(urls.webSocket \o apiKey)>>
        ELSE <<Public>>

\* the urls array with the Infura transport pushed before the Alchemy one
ChainTransportsInfuraFirst(chainId, alchemyId, infuraId) ==
    (IF ~Missing(infuraId) THEN createTransport(chainId, "infura", infuraId) ELSE <<>>)
    \o (IF ~Missing(alchemyId) THEN createTransport(chainId, "alchemy", alchemyId) ELSE <<>>)
    \o <<Public>>

\* the urls array getDefaultTransports builds for one chain
ChainTransports(chainId, alchemyId, infuraId) ==
    (IF ~Missing(alchemyId) THEN createTransport(chainId, "alchemy", alchemyId) ELSE <<>>)
    \o (IF ~Missing(infuraId) THEN createTransport(chainId, "infura", infuraId) ELSE <<>>)
    \o <<Public>>

\* chains = [mainnet, polygon, optimism, arbitrum]
DefaultChains == <<1, 137, 10, 42161>>

\* the chains property left undefined: a list that is no list of chain ids
NoChains == <<-1>>

RECURSIVE AssignTransports(_, _, _, _)
\* the forEach of getDefaultTransports: transports[chain.id] = fallback(urls)
\* for each chain in turn, a later chain with the same id overwriting
AssignTransports(chains, alchemyId, infuraId, acc) ==
    IF chains = <<>> THEN acc
    ELSE LET id == Head(chains)
             one == ChainTransports(id, alchemyId, infuraId)
         IN  AssignTransports(Tail(chains), alchemyId, infuraId,
                 [c \in DOMAIN acc \cup {id} |-> IF c = id THEN one ELSE acc[c]])

\* the empty object {}
EmptyObject == [c \in {} |-> <<>>]

\* getDefaultTransports({chains, alchemyId, infuraId})
getDefaultTransports(p) ==
    AssignTransports(IF p.chains = NoChains THEN DefaultChains ELSE p.chains,
                     p.alchemyId, p.infuraId, EmptyObject)

\* transports before getDefaultTransports has returned; <<t>> once it
\* has returned t
NotCalled == <<>>

\* the chain ids a caller passes: those of the table and two it lacks
ChainIds == TableIds \cup {56, 999}

ChainLists == UNION {[1..n -> ChainIds] : n \in 0..MaxChains} \cup {NoChains}

\* an API key: not given, empty, or a key
AlchemyKeys == {Undefined, <<>>, <<"alchemy-key">>}

InfuraKeys == {Undefined, <<>>, <<"infura-key">>}

TransportsIdle ==
    /\ props = [chains |-> NoChains, alchemyId |-> Undefined, infuraId |-> Undefined]
    /\ transports = NotCalled

InitTransports ==
    /\ props \in [chains : ChainLists, alchemyId : AlchemyKeys, infuraId : InfuraKeys]
    /\ transports = NotCalled

GetDefaultTransports ==
    /\ transports = NotCalled
    /\ transports' = <<getDefaultTransports(props)>>
    /\ UNCHANGED <<props, registryVars, flowVars, connectVars>>

-----------------------------------------------------------------------------
(* The useConnect hook: hooks/useConnect.tsx *)

\* a mutation callback: not given, the caller's, or the one useConnect defines
CallerCallback == <<"caller">>

UseConnectCallback == <<"useConnect">>

\* an onError given in the mutation argument of one connect call
PerCallCallback == <<"perCall">>

\* the mutation argument of connect and connectAsync: left out, or with an
\* onError
PerCallMutations == {<<>>, <<[onError |-> PerCallCallback, onSuccess |-> Undefined]>>}

\* a mutation object of the caller: onError and onSuccess, each given or not
MutationOptions == [onError : {Undefined, CallerCallback}, onSuccess : {Undefined, CallerCallback}]

\* {...undefined}: an object without callbacks
NoCallbacks == [onError |-> Undefined, onSuccess |-> Undefined]

\* props.mutation: <<>> when it is not given, <<m>> when it is m
MutationProps == {<<>>} \cup {<<m>> : m \in MutationOptions}

\* the mutation with the caller's callbacks spread after onError
MutationCallerLast(p) ==
    LET spread == IF p.mutation = <<>> THEN NoCallbacks ELSE p.mutation[1]
    IN  [spread EXCEPT !.onError = IF spread.onError = Undefined THEN UseConnectCallback
                                     ELSE spread.onError]

\* mutation: {...props.mutation, onError(err) {...}}
MutationOfUseConnect(p) ==
    LET spread == IF p.mutation = <<>> THEN NoCallbacks ELSE p.mutation[1]
    IN  [spread EXCEPT !.onError = UseConnectCallback]

UserRejected == <<"User rejected request">>

\* err.message: missing, empty, the rejection text, and a text that begins
\* like it
Messages == {Undefined, <<>>, UserRejected, <<"User rejected request", ".">>}

\* the calls of context.log that onError(err) makes
onError(err) ==
    IF ~Missing(err.message)
    THEN IF err.message # UserRejected
         THEN <<[text |-> err.message, err |-> err]>>
         ELSE <<>>
    ELSE <<[text |-> <<"Could not connect.">>, err |-> err]>>

\* chainId left out of the argument of connect
NoChainId == -1

ChainIdArgs == {NoChainId, 137}

InitialChainIds == {NoChainId, 10}

NoOutcome == [message |-> <<"none">>]

ConnectIdle ==
    /\ connectProps = [mutation |-> <<>>]
    /\ initialChainId = NoChainId
    /\ wagmiOptions = <<>>
    /\ attempts = <<>>
    /\ logged = <<>>
    /\ invoked = <<>>

\* useConnect(props) is called by the component that renders
UseConnect ==
    /\ wagmiOptions = <<>>
    /\ wagmiOptions' = <<[mutation |-> MutationOfUseConnect(connectProps)]>>
    /\ UNCHANGED <<connectProps, initialChainId, attempts, logged, invoked>>
    /\ UNCHANGED <<registryVars, flowVars, transportVars>>

\* connect({connector, chainId, mutation}) and connectAsync({connector,
\* chainId, mutation}) of the returned object: wagmi's function is called
\* with chainId ?? context.uiConfig?.initialChainId and with mutation
ConnectVia(fn) ==
    /\ wagmiOptions # <<>>
    /\ Len(attempts) < MaxConnects
    /\ \E c \in ChainIdArgs, mutation \in PerCallMutations :
           attempts' = Append(attempts,
               [fn      |-> fn,
                chainId |-> IF c = NoChainId THEN initialChainId ELSE c,
                mutation |-> mutation,
                status  |-> "pending",
                error   |-> NoOutcome])
    /\ UNCHANGED <<connectProps, initialChainId, wagmiOptions, logged, invoked>>
    /\ UNCHANGED <<registryVars, flowVars, transportVars>>

Connect == ConnectVia("connect")

ConnectAsync == ConnectVia("connectAsync")

\* a connection fails: wagmi calls the onError of the mutation the hook
\* gave it with the error, then the onError given with the call, if any
ConnectFails ==
    \E i \in 1..Len(attempts), m \in Messages :
        LET err     == [id |-> i, message |-> m]
            handler == wagmiOptions[1].mutation.onError
        IN  /\ attempts[i].status = "pending"
            /\ attempts' = [attempts EXCEPT ![i].status = "failed", ![i].error = [message |-> m]]
            /\ logged' = IF handler = UseConnectCallback THEN logged \o onError(err)
                         ELSE logged
            /\ invoked' = invoked
                   \o (IF handler # Undefined
                       THEN <<[callback |-> "onError", of |-> handler, id |-> i]>>
                       ELSE <<>>)
                   \o (IF attempts[i].mutation # <<>>
                       THEN <<[callback |-> "onError", of |-> attempts[i].mutation[1].onError,
                               id |-> i]>>
                       ELSE <<>>)
            /\ UNCHANGED <<connectProps, initialChainId, wagmiOptions>>
            /\ UNCHANGED <<registryVars, flowVars, transportVars>>

\* a connection succeeds: wagmi calls the onSuccess of the mutation, if any
ConnectSucceeds ==
    \E i \in 1..Len(attempts) :
        LET handler == wagmiOptions[1].mutation.onSuccess
        IN  /\ attempts[i].status = "pending"
            /\ attempts' = [attempts EXCEPT ![i].status = "connected"]
            /\ invoked' = IF handler # Undefined
                          THEN Append(invoked, [callback |-> "onSuccess", of |-> handler, id |-> i])
                          ELSE invoked
            /\ UNCHANGED <<connectProps, initialChainId, wagmiOptions, logged>>
            /\ UNCHANGED <<registryVars, flowVars, transportVars>>

-----------------------------------------------------------------------------
(* The URLs and the stored emails the page is mounted with *)

\* the emails a login flow may have left in localStorage
StoredEmails == {<<"a", "@", "b">>, <<"a", "+", "1", "@", "b">>}

\* an email as a query parameter: as URLSearchParams writes it, or as typed
UrlEmails == {UrlEncode(e) : e \in StoredEmails} \cup {<<"a", "@", "b">>}

ParamKeys == {"openfortEmailVerificationUI", "state", "email", "other"}

\* the orders in which some of the parameters can appear, each at most once
ParamOrders ==
    {o \in UNION {[1..n -> ParamKeys] : n \in 0..Cardinality(ParamKeys)} :
        \A i, j \in 1..Len(o) : i # j => o[i] # o[j]}

ParamValue(key, email) ==
    CASE key = "openfortEmailVerificationUI" -> <<"true">>
      [] key = "state" -> <<"X", "Y", "Z">>
      [] key = "email" -> email
      [] OTHER -> <<"1">>

RECURSIVE JoinParams(_, _, _, _)
\* the query string of the parameters order[i..], a "?" in place of the "&"
\* before state when the provider appended state to a URL that had a query
JoinParams(order, i, email, appended) ==
    IF i > Len(order) THEN <<>>
    ELSE (IF i = 1 THEN <<"?">>
          ELSE IF appended /\ order[i] = "state" THEN <<"?">> ELSE <<"&">>)
         \o <<order[i], "=">> \o ParamValue(order[i], email)
         \o JoinParams(order, i + 1, email, appended)

InitialHrefs ==
    {<<"https://app", "/callback">> \o JoinParams(o, 1, e, a) \o f :
        o \in ParamOrders, e \in UrlEmails, a \in BOOLEAN, f \in {<<>>, <<"#", "top">>}}

-----------------------------------------------------------------------------
(* Specifications *)

RegistryInit ==
    /\ defaultClient = Null
    /\ heap = <<>>
    /\ trace = <<>>

\* the page as its first render leaves it, mounted at location h with st in
\* localStorage; both effects wait to run
PageInit(h, st) ==
    /\ href = h
    /\ storage = st
    /\ atMount = [href |-> h, storage |-> st]
    /\ route = EMAIL_VERIFICATION
    /\ mounted = TRUE
    /\ loading = TRUE
    /\ shouldSendEmailVerification = JsNull
    /\ emailInStorage = st
    /\ verificationResponse = NoResponse
    /\ screen = RenderOutput(TRUE, NoResponse, st)
    /\ dirty = FALSE
    /\ effects = <<"send", "mount">>
    /\ sendDep = JsNull
    /\ url = NewURL(h)
    /\ request = "none"
    /\ verify = "none"
    /\ calls = <<>>
    /\ envSteps = [clicks |-> 0, urlChanges |-> 0]

InitRegistry ==
    /\ RegistryInit
    /\ PageInit(<<"https://app", "/callback">>, JsNull)
    /\ TransportsIdle
    /\ ConnectIdle

NextRegistry == Create \/ GetOrInit \/ Set

SpecRegistry == InitRegistry /\ [][NextRegistry]_vars

InitFlow ==
    /\ RegistryInit
    /\ TransportsIdle
    /\ ConnectIdle
    /\ \E h \in InitialHrefs, st \in StoredEmails \cup {JsNull} : PageInit(h, st)

NextFlow ==
    \/ SendEffect
    \/ MountEffect
    \/ Render
    \/ RequestResolves
    \/ RequestRejects
    \/ VerifyResolves
    \/ VerifyRejects
    \/ ClickContinue
    \/ ClickUseAnotherEmail
    \/ Unmount
    \/ ExternalUrlChange

SpecFlow == InitFlow /\ [][NextFlow]_vars

\* the URLs of the two phases: the bare callback URL, and the well-formed
\* verification link with each email
CallbackHrefs ==
    {<<"https://app", "/callback">>}
    \cup {<<"https://app", "/callback">>
            \o JoinParams(<<"openfortEmailVerificationUI", "state", "email">>, 1, e, FALSE) :
          e \in UrlEmails}

InitFlowFair ==
    /\ RegistryInit
    /\ TransportsIdle
    /\ ConnectIdle
    /\ \E h \in CallbackHrefs, st \in {JsNull, <<"a", "@", "b">>} : PageInit(h, st)

\* the flow with React's scheduling of renders: a re-render that a state
\* update asked for happens, as long as the page is mounted
SpecFlowFair ==
    /\ InitFlowFair
    /\ [][NextFlow]_vars
    /\ WF_vars(Render)

InitDefaultTransports ==
    /\ RegistryInit
    /\ PageInit(<<"https://app", "/callback">>, JsNull)
    /\ InitTransports
    /\ ConnectIdle

NextTransports == GetDefaultTransports

SpecTransports == InitDefaultTransports /\ [][NextTransports]_vars

InitConnect ==
    /\ RegistryInit
    /\ PageInit(<<"https://app", "/callback">>, JsNull)
    /\ TransportsIdle
    /\ connectProps \in [mutation : MutationProps]
    /\ initialChainId \in InitialChainIds
    /\ wagmiOptions = <<>>
    /\ attempts = <<>>
    /\ logged = <<>>
    /\ invoked = <<>>

NextConnect ==
    \/ UseConnect
    \/ Connect
    \/ ConnectAsync
    \/ ConnectFails
    \/ ConnectSucceeds

SpecConnect == InitConnect /\ [][NextConnect]_vars

-----------------------------------------------------------------------------
(* Properties of the shared client *)

Calls(op) == {i \in 1..Len(trace) : trace[i].op = op}

\* the getDefaultClient calls that returned (did not throw)
GetsReturned == {i \in Calls("get") : trace[i].err = NoError}

NoSetCalled == Calls("set") = {}

Min(S) == CHOOSE x \in S : \A y \in S : x <= y

Max(S) == CHOOSE x \in S : \A y \in S : x >= y

Appended == Len(trace') = Len(trace) + 1

\* C1: with no call to setDefaultClient, every getDefaultClient call that
\* returns yields the instance the first returning call constructed, whatever
\* config is passed, and getDefaultClient constructs at most one client.
C1_SingletonReused ==
    (NoSetCalled /\ GetsReturned # {}) =>
        LET first == Min(GetsReturned)
        IN  /\ trace[first].built
            /\ heap[trace[first].ret] = trace[first].cfg
            /\ \A i \in GetsReturned :
                   /\ trace[i].ret = trace[first].ret
                   /\ (i # first => ~trace[i].built)
            /\ defaultClient = trace[first].ret

\* two returning getDefaultClient calls with different configs, no set
C1_Witness ==
    /\ NoSetCalled
    /\ \E i, j \in GetsReturned :
           /\ i < j
           /\ trace[i].cfg = "cfgA"
           /\ trace[j].cfg = "cfgB"
           /\ trace[j].ret = trace[i].ret

\* C2: getDefaultClient() without config while the singleton is absent throws
\* the uninitialized error and leaves the singleton absent: a following call
\* without config throws again, a following call with a config constructs
\* and returns the singleton.
C2_UninitializedThrows ==
    /\ [][(Appended /\ Last(trace').op = "get" /\ Last(trace').cfg = NoConfig
              /\ defaultClient = Null)
          => /\ Last(trace').err = UninitializedError
             /\ Last(trace').ret = Null
             /\ ~Last(trace').built
             /\ defaultClient' = Null
             /\ heap' = heap]_vars
    /\ [](\A i \in Calls("get") :
             (trace[i].err # NoError /\ i < Len(trace) /\ trace[i + 1].op = "get") =>
                 IF trace[i + 1].cfg = NoConfig
                 THEN trace[i + 1].err = UninitializedError
                 ELSE /\ trace[i + 1].err = NoError
                      /\ trace[i + 1].built
                      /\ trace[i + 1].ret # Null
                      /\ heap[trace[i + 1].ret] = trace[i + 1].cfg)

\* a throwing call, then another throwing call, then an initialising call
C2_Witness ==
    /\ Len(trace) >= 3
    /\ trace[1].op = "get" /\ trace[1].err = UninitializedError
    /\ trace[2].op = "get" /\ trace[2].err = UninitializedError
    /\ trace[3].op = "get" /\ trace[3].built
    /\ defaultClient = trace[3].ret

\* C3: a getDefaultClient call made after some setDefaultClient call returns
\* the handle of the most recent setDefaultClient call before it, whatever
\* its own argument, and constructs nothing; setDefaultClient stores its
\* handle whether or not one was stored before.
C3_SetWins ==
    /\ \A j \in Calls("get") :
           LET before == {i \in Calls("set") : i < j}
           IN  before # {} =>
                   /\ trace[j].err = NoError
                   /\ trace[j].ret = trace[Max(before)].h
                   /\ ~trace[j].built
    /\ (trace # <<>> /\ Last(trace).op = "set") => defaultClient = Last(trace).h

\* two sets of different handles over an existing singleton, then a get with a config
C3_Witness ==
    \E i, j, k \in 1..Len(trace) :
        /\ i < j /\ j < k
        /\ trace[i].op = "set"
        /\ trace[j].op = "set"
        /\ trace[j].h # trace[i].h
        /\ \A m \in (j + 1)..(k - 1) : trace[m].op # "set"
        /\ trace[k].op = "get"
        /\ trace[k].cfg \in Configs
        /\ trace[k].ret = trace[j].h

\* C4: createOpenfortClient returns an instance that did not exist before,
\* configured as asked and different from the shared singleton, and leaves
\* the shared singleton as it was.
C4_CreateIsFresh ==
    [][(Appended /\ Last(trace').op = "create")
       => /\ defaultClient' = defaultClient
          /\ Last(trace').ret \notin 1..Len(heap)
          /\ Last(trace').ret \in 1..Len(heap')
          /\ heap'[Last(trace').ret] = Last(trace').cfg
          /\ Last(trace').ret # defaultClient'
          /\ \A i \in 1..Len(heap) : heap'[i] = heap[i]]_vars

\* a create while the singleton is present, and one while it is absent
C4_Witness ==
    /\ Len(trace) >= 3
    /\ trace[1].op = "create"
    /\ trace[2].op = "get" /\ trace[2].built
    /\ trace[3].op = "create"
    /\ defaultClient = trace[2].ret

\* C5: the shared handle is absent initially, once present it is never absent
\* again, and a present handle is replaced only by a setDefaultClient step.
C5_Lifecycle ==
    /\ defaultClient = Null
    /\ [][defaultClient # Null =>
             /\ defaultClient' # Null
             /\ (defaultClient' # defaultClient =>
                    (Appended /\ Last(trace').op = "set"))]_vars

\* the handle was initialised by getDefaultClient, replaced by a set, and a
\* later getDefaultClient with a config kept it
C5_Witness ==
    /\ Len(trace) >= 4
    /\ trace[1].op = "create"
    /\ trace[2].op = "get" /\ trace[2].built
    /\ trace[3].op = "set" /\ trace[3].h # trace[2].ret
    /\ trace[4].op = "get" /\ trace[4].cfg \in Configs
    /\ defaultClient = trace[3].h

\* the getDefaultClient calls that race on the first initialisation: the
\* first two calls made with a config, with different configs, the singleton
\* absent before the first of them and no setDefaultClient at all
RacePairs ==
    {p \in Calls("get") \X Calls("get") :
        /\ p[1] < p[2]
        /\ trace[p[1]].cfg \in Configs
        /\ trace[p[2]].cfg \in Configs
        /\ trace[p[1]].cfg # trace[p[2]].cfg
        /\ \A k \in 1..(p[1] - 1) : trace[k].op = "get" /\ trace[k].cfg = NoConfig
        /\ NoSetCalled}

\* C6 as stated: of two getDefaultClient calls racing on the first
\* initialisation with different configs, the one that completes last
\* provides the singleton.
C6_LastInitWins ==
    \A p \in RacePairs :
        (\A k \in Calls("get") : k <= p[2]) =>
            /\ defaultClient # Null
            /\ heap[defaultClient] = trace[p[2]].cfg

\* C6 as amended: of two getDefaultClient calls with different configs made
\* while the singleton is absent, the one that runs first constructs the
\* singleton; the later one constructs nothing and returns the first one's
\* instance, its config being ignored.
C6_FirstInitWins ==
    \A p \in RacePairs :
        /\ trace[p[1]].built
        /\ defaultClient = trace[p[1]].ret
        /\ heap[defaultClient] = trace[p[1]].cfg
        /\ ~trace[p[2]].built
        /\ trace[p[2]].ret = trace[p[1]].ret

C6_Witness ==
    /\ Len(trace) = 2
    /\ <<1, 2>> \in RacePairs
    /\ trace[1].cfg = "cfgA"
    /\ trace[2].cfg = "cfgB"

-----------------------------------------------------------------------------
(* Properties of the EmailVerification page *)

\* the calls made by the component itself, in order
FlowCalls == SelectSeq(calls, LAMBDA c : c.by = "flow")

CallsTo(api) == SelectSeq(calls, LAMBDA c : c.api = api)

CallIndex(api) == CHOOSE i \in 1..Len(calls) : calls[i].api = api

\* the mount effect has run
MountRan == \A i \in 1..Len(effects) : effects[i] # "mount"

\* nothing is left to run for a page that is still mounted
Settled == mounted /\ ~dirty /\ effects = <<>>

\* the URL the page was mounted with carries no verification flag
FlagAbsentAtMount == SearchParamsGet(NewURL(atMount.href), FlagName) = JsNull

\* the request phase: no flag in the URL, a pending email in localStorage
RequestPhase == FlagAbsentAtMount /\ atMount.storage # JsNull

\* C7: mounted with no verification flag in the URL and no pending email in
\* local storage, the flow sets the route to the email-login route and does
\* nothing else, whatever happens next: no requestEmailVerification, no
\* verifyEmail, no write to local storage, no change of the URL.
C7_NoPendingEmailGoesToLogin ==
    (FlagAbsentAtMount /\ atMount.storage = JsNull) =>
        /\ FlowCalls = IF MountRan
                       THEN <<Invoke("setRoute", "flow", <<EMAIL_LOGIN>>, <<>>)>>
                       ELSE <<>>
        /\ MountRan => route = EMAIL_LOGIN
        /\ request = "none"
        /\ verify = "none"
        /\ storage = JsNull
        /\ envSteps.urlChanges = 0 => href = atMount.href

\* the login route was set, and the page lived on: unmounted later, the URL
\* changed by the application
C7_Witness ==
    /\ FlagAbsentAtMount
    /\ atMount.storage = JsNull
    /\ Len(NewURL(atMount.href).params) = 2
    /\ MountRan
    /\ route = EMAIL_LOGIN
    /\ ~mounted
    /\ envSteps.urlChanges = 1

\* the redirect URL C8 describes for the location h and the email e
ExpectedRedirect(h, e) ==
    <<h[1], h[2], "?", "openfortEmailVerificationUI", "=", "true", "&", "email", "=">>
    \o UrlEncode(e)

\* C8: mounted with no flag and a pending email e, requestEmailVerification
\* is called at most once, exactly once when the page has settled, with
\* email e and redirectUrl = origin + path of the current URL followed by
\* ?openfortEmailVerificationUI=true&email=<e URL-encoded> and nothing else of
\* the current URL; verifyEmail is never called.
C8_RequestCall ==
    /\ [](RequestPhase =>
            /\ Len(CallsTo("requestEmailVerification")) <= 1
            /\ (request # "none") <=> (Len(CallsTo("requestEmailVerification")) = 1)
            /\ Settled => Len(CallsTo("requestEmailVerification")) = 1
            /\ \A i \in 1..Len(calls) :
                   calls[i].api = "requestEmailVerification" =>
                       /\ calls[i].a1 = atMount.storage
                       /\ (atMount.storage = <<"a", "@", "b">> =>
                              SubSeq(calls[i].a2, 3, Len(calls[i].a2)) =
                                  <<"?", "openfortEmailVerificationUI", "=", "true",
                                    "&", "email", "=", "a", "%40", "b">>)
            /\ CallsTo("verifyEmail") = <<>>
            /\ verify = "none")
    /\ [][(RequestPhase /\ Len(calls') > Len(calls)
              /\ Last(calls').api = "requestEmailVerification")
          => Last(calls').a2 = ExpectedRedirect(href, atMount.storage)]_vars

\* the request was made from a URL with two other parameters and a fragment,
\* for an email with two characters that are escaped
C8_Witness ==
    /\ RequestPhase
    /\ atMount.storage = <<"a", "+", "1", "@", "b">>
    /\ Len(NewURL(atMount.href).params) = 2
    /\ NewURL(atMount.href).hash # JsNull
    /\ href = atMount.href
    /\ Len(CallsTo("requestEmailVerification")) = 1
    /\ CallsTo("requestEmailVerification")[1].a2 =
           <<"https://app", "/callback", "?", "openfortEmailVerificationUI", "=", "true",
             "&", "email", "=", "a", "%2B", "1", "%40", "b">>

C10_RequestFailureSwallowed ==
    RequestPhase =>
        /\ verificationResponse = NoResponse
        /\ \A i \in 1..Len(calls) : calls[i].api = "setRoute" => calls[i].by = "user"
        /\ envSteps.clicks = 0 => route = EMAIL_VERIFICATION
        /\ screen.kind \in {"CHECKING", "AWAITING_USER_CHECK"}
        /\ (request # "none" \/ Settled) =>
               /\ screen.kind = "AWAITING_USER_CHECK"
               /\ screen.body = atMount.storage
               /\ ~loading
        /\ CallsTo("log") =
               IF request = "rejected"
               THEN <<Invoke("log", "flow", <<"Error requesting email verification">>, <<"e">>)>>
               ELSE <<>>
        /\ CallsTo("console.error") = <<>>
        /\ request = "rejected" => ~dirty

\* the request was rejected and the page, still mounted, shows the email
C10_Witness ==
    /\ RequestPhase
    /\ request = "rejected"
    /\ Settled
    /\ screen.kind = "AWAITING_USER_CHECK"
    /\ screen.body = <<"a", "@", "b">>

\* a query parameter as the mount effect reads it from the URL the page was
\* mounted with
ParamAtMount(name) == SearchParamsGet(FixedUrl(atMount.href), name)

FlagPresentAtMount == ~Falsy(ParamAtMount(FlagName))

\* the confirmation phase: flag, state and email are all present
ConfirmPhase ==
    /\ FlagPresentAtMount
    /\ ~Falsy(ParamAtMount(StateName))
    /\ ~Falsy(ParamAtMount(EmailName))

HasToken(s, t) == \E i \in 1..Len(s) : s[i] = t

\* C11: in the confirmation phase verifyEmail is called exactly once (by the
\* mount effect) with the URL's email and state; when it resolves the result
\* of a page still mounted is {success: true} without error, when it rejects
\* the result is {success: false, error: <non-empty text>} and the error is
\* logged once; requestEmailVerification is never called.
C11_VerifyCall ==
    ConfirmPhase =>
        /\ Len(CallsTo("verifyEmail")) = IF MountRan THEN 1 ELSE 0
        /\ (verify # "none") <=> MountRan
        /\ \A i \in 1..Len(calls) :
               calls[i].api = "verifyEmail" =>
                   /\ calls[i].a1 = ParamAtMount(EmailName)
                   /\ calls[i].a1 \in StoredEmails
                   /\ HasToken(calls[i].a1, "@")
                   /\ calls[i].a2 = <<"X", "Y", "Z">>
        /\ CallsTo("requestEmailVerification") = <<>>
        /\ request = "none"
        /\ verify \in {"none", "pending"} => verificationResponse = NoResponse
        /\ (verify = "resolved" /\ mounted) =>
               /\ verificationResponse.present
               /\ verificationResponse.success
               /\ verificationResponse.error = <<>>
        /\ (verify = "rejected" /\ mounted) =>
               /\ verificationResponse.present
               /\ ~verificationResponse.success
               /\ verificationResponse.error # <<>>
        /\ SelectSeq(calls, LAMBDA c : c.api = "log" /\ c.a1 = <<"Error verifying email">>) =
               IF verify = "rejected"
               THEN <<Invoke("log", "flow", <<"Error verifying email">>, <<"e">>)>>
               ELSE <<>>
        /\ Settled => verify \in {"pending", "resolved", "rejected"}

\* verifyEmail was rejected and the failure is on the screen
C11_Witness ==
    /\ ConfirmPhase
    /\ verify = "rejected"
    /\ Settled
    /\ screen.kind = "DONE"
    /\ screen.title = <<"Email verification failed">>
    /\ screen.body = VerifyErrorText
    /\ CallsTo("verifyEmail")[1].a1 = <<"a", "+", "1", "@", "b">>

\* the URL the page was mounted with, without the three verification
\* parameters: what is left is the parameter other, if it was there, and the
\* fragment, if there was one
ExpectedStripped(h) ==
    <<h[1], h[2]>>
    \o (IF HasToken(h, "other") THEN <<"?", "other", "=", "1">> ELSE <<>>)
    \o (IF HasToken(h, "#") THEN <<"#", "top">> ELSE <<>>)

\* C12: in the confirmation phase the flow does not touch the URL before
\* verifyEmail settles; when it settles, resolved or rejected, the flow
\* replaces the current history entry (history.replaceState, once) by the
\* URL without state, email and openfortEmailVerificationUI, every other
\* query parameter kept.
C12_ParamsStripped ==
    /\ [](ConfirmPhase =>
            /\ verify \in {"none", "pending"} =>
                   /\ CallsTo("replaceState") = <<>>
                   /\ envSteps.urlChanges = 0 => href = atMount.href
            /\ verify \in {"resolved", "rejected"} =>
                   /\ Len(CallsTo("replaceState")) = 1
                   /\ CallsTo("replaceState")[1].a1 = ExpectedStripped(atMount.href)
                   /\ \A name \in {FlagName, StateName, EmailName} :
                          SearchParamsGet(NewURL(CallsTo("replaceState")[1].a1), name) = JsNull
            /\ screen.kind = "DONE" => verify \in {"resolved", "rejected"})
    /\ [][(ConfirmPhase /\ Len(calls') > Len(calls) /\ Last(calls').api = "replaceState")
          => href' = Last(calls').a1]_vars

\* verifyEmail resolved for a URL with another parameter and a fragment
C12_Witness ==
    /\ ConfirmPhase
    /\ verify = "resolved"
    /\ screen.kind = "DONE"
    /\ HasToken(atMount.href, "other")
    /\ href = <<"https://app", "/callback", "?", "other", "=", "1", "#", "top">>

\* the flow itself has called setRoute(routes.EMAIL_LOGIN)
FlowSetLoginRoute ==
    \E i \in 1..Len(calls) :
        calls[i] = Invoke("setRoute", "flow", <<EMAIL_LOGIN>>, <<>>)

StateMissingAtMount == Falsy(ParamAtMount(StateName))

EmailMissingAtMount == Falsy(ParamAtMount(EmailName))

\* C13 as stated: with the flag present the flow calls verifyEmail only if
\* state and email are both present, and in every other case it falls back
\* to the login route.
C13_OtherwiseLogin ==
    (FlagPresentAtMount /\ MountRan) =>
        /\ verify # "none" => (~StateMissingAtMount /\ ~EmailMissingAtMount)
        /\ (StateMissingAtMount \/ EmailMissingAtMount) =>
               (FlowSetLoginRoute /\ route = EMAIL_LOGIN)

\* C13 as amended: with the flag present the flow calls verifyEmail if and
\* only if state and email are both present; with state present and email
\* missing it falls back to the login route; with state missing (email
\* present or not) it neither verifies nor sets the route.
C13_LoginOnlyWhenEmailMissing ==
    (FlagPresentAtMount /\ MountRan) =>
        /\ (verify # "none") <=> (~StateMissingAtMount /\ ~EmailMissingAtMount)
        /\ (Len(CallsTo("verifyEmail")) = 1) <=> (~StateMissingAtMount /\ ~EmailMissingAtMount)
        /\ (~StateMissingAtMount /\ EmailMissingAtMount) =>
               (FlowSetLoginRoute /\ route = EMAIL_LOGIN)
        /\ StateMissingAtMount =>
               /\ ~FlowSetLoginRoute
               /\ route = EMAIL_VERIFICATION
        /\ ConfirmPhase => ~FlowSetLoginRoute

\* flag and state present, email missing: the login route
C13_Witness ==
    /\ FlagPresentAtMount
    /\ MountRan
    /\ ~StateMissingAtMount
    /\ EmailMissingAtMount
    /\ route = EMAIL_LOGIN
    /\ verify = "none"

\* C14: with the flag present and state missing, email present or not, the
\* flow aborts: it logs to the console and does nothing else, whatever
\* happens next: no SDK call, no route, no change of the URL or of local
\* storage, no result, and the page keeps showing the loading indicator.
C14_MissingStateAborts ==
    (FlagPresentAtMount /\ StateMissingAtMount) =>
        /\ FlowCalls = IF MountRan
                       THEN <<Invoke("console.error", "flow", <<"No state found in URL">>, <<>>)>>
                       ELSE <<>>
        /\ calls = FlowCalls
        /\ request = "none"
        /\ verify = "none"
        /\ route = EMAIL_VERIFICATION
        /\ storage = atMount.storage
        /\ envSteps.urlChanges = 0 => href = atMount.href
        /\ verificationResponse = NoResponse
        /\ loading
        /\ ~dirty
        /\ screen.kind = "CHECKING"

\* aborted with the email present and an email in local storage; the
\* page is still mounted and nothing is left to run
C14_Witness ==
    /\ FlagPresentAtMount
    /\ StateMissingAtMount
    /\ ~EmailMissingAtMount
    /\ atMount.storage # JsNull
    /\ MountRan
    /\ Settled
    /\ screen.kind = "CHECKING"

\* C15: with flag and state present and email missing the flow sets the
\* route to the email-login route and does nothing else: no verifyEmail, no
\* requestEmailVerification, no result, and the verification parameters stay
\* in the URL.
C15_MissingEmailGoesToLogin ==
    (FlagPresentAtMount /\ ~StateMissingAtMount /\ EmailMissingAtMount) =>
        /\ FlowCalls = IF MountRan
                       THEN <<Invoke("setRoute", "flow", <<EMAIL_LOGIN>>, <<>>)>>
                       ELSE <<>>
        /\ MountRan => route = EMAIL_LOGIN
        /\ request = "none"
        /\ verify = "none"
        /\ verificationResponse = NoResponse
        /\ storage = atMount.storage
        /\ envSteps.urlChanges = 0 =>
               /\ href = atMount.href
               /\ HasToken(href, "openfortEmailVerificationUI")
               /\ HasToken(href, "state")

\* the login route was set, the parameters are still in the URL
C15_Witness ==
    /\ FlagPresentAtMount
    /\ ~StateMissingAtMount
    /\ EmailMissingAtMount
    /\ MountRan
    /\ route = EMAIL_LOGIN
    /\ ~mounted
    /\ HasToken(href, "state")
    /\ HasToken(href, "other")

Fragments == {<<>>, <<"#", "top">>}

\* <origin><path>?state=S&email=E&openfortEmailVerificationUI=true
StateFirstHref(S, E, f) ==
    <<"https://app", "/callback", "?", "state", "=">> \o S \o <<"&", "email", "=">> \o E
    \o <<"&", "openfortEmailVerificationUI", "=", "true">> \o f

\* <origin><path>?openfortEmailVerificationUI=true&state=S&email=E
WellFormedHref(S, E, f) ==
    <<"https://app", "/callback", "?", "openfortEmailVerificationUI", "=", "true",
      "&", "state", "=">> \o S \o <<"&", "email", "=">> \o E \o f

\* <origin><path>?openfortEmailVerificationUI=true&email=E?state=S
AppendedStateHref(S, E, f) ==
    <<"https://app", "/callback", "?", "openfortEmailVerificationUI", "=", "true",
      "&", "email", "=">> \o E \o <<"?", "state", "=">> \o S \o f

\* flag, state and email as the mount effect has read them into url
ParsedAtMount ==
    <<SearchParamsGet(url, FlagName), SearchParamsGet(url, StateName),
      SearchParamsGet(url, EmailName)>>

\* the mount effect has read flag, S and E and has called verifyEmail with them
ReadAndVerified(S, E) ==
    /\ verify = "pending" => ParsedAtMount = <<<<"true">>, S, UrlDecode(E)>>
    /\ verify # "none"
    /\ CallsTo("verifyEmail") = <<Invoke("verifyEmail", "flow", UrlDecode(E), S)>>

\* C16 as stated: a URL whose query string begins with state is read by the
\* mount effect as the well-formed URL with the same S and E is: flag true,
\* state S, email E, and verifyEmail called with them.
C16_StateFirstReadAlike ==
    \A E \in UrlEmails, f \in Fragments :
        (MountRan /\ atMount.href \in {StateFirstHref(<<"X", "Y", "Z">>, E, f),
                                       WellFormedHref(<<"X", "Y", "Z">>, E, f)})
            => ReadAndVerified(<<"X", "Y", "Z">>, E)

\* C16 as amended: a URL to which state was appended with "?" after its
\* query string is read by the mount effect as the well-formed URL with the
\* same S and E is: flag true, state S, email E, and verifyEmail called with
\* them.  (Of a URL whose query string begins with state the mount effect
\* reads no parameter at all.)
C16_AppendedStateReadAlike ==
    \A E \in UrlEmails, f \in Fragments :
        /\ (MountRan /\ atMount.href \in {AppendedStateHref(<<"X", "Y", "Z">>, E, f),
                                          WellFormedHref(<<"X", "Y", "Z">>, E, f)})
               => ReadAndVerified(<<"X", "Y", "Z">>, E)
        /\ (MountRan /\ atMount.href = StateFirstHref(<<"X", "Y", "Z">>, E, f))
               => /\ ParsedAtMount = <<JsNull, JsNull, JsNull>>
                  /\ verify = "none"

\* mounted with state appended by "?", verifyEmail called and pending
C16_Witness ==
    /\ atMount.href = AppendedStateHref(<<"X", "Y", "Z">>, <<"a", "%2B", "1", "%40", "b">>,
                                        <<>>)
    /\ verify = "pending"
    /\ ParsedAtMount = <<<<"true">>, <<"X", "Y", "Z">>, <<"a", "+", "1", "@", "b">>>>
    /\ CallsTo("verifyEmail")[1].a1 = <<"a", "+", "1", "@", "b">>

\* C17: one page instance decides its phase once, from the URL and the
\* storage it was mounted with, and the phases exclude each other: it calls
\* requestEmailVerification at most once, verifyEmail at most once, and never
\* both; a request is made only when it was mounted in the request phase, a
\* verification only when it was mounted in the confirmation phase.
C17_PhasesExclusive ==
    /\ Len(CallsTo("requestEmailVerification")) <= 1
    /\ Len(CallsTo("verifyEmail")) <= 1
    /\ Len(CallsTo("requestEmailVerification")) + Len(CallsTo("verifyEmail")) <= 1
    /\ (request = "none") <=> (CallsTo("requestEmailVerification") = <<>>)
    /\ (verify = "none") <=> (CallsTo("verifyEmail") = <<>>)
    /\ request # "none" => (~FlagPresentAtMount /\ atMount.storage # JsNull)
    /\ verify # "none" => ConfirmPhase

\* mounted in the confirmation phase with an email in local storage as well:
\* verifyEmail has settled, the URL was changed later, no request was made
C17_Witness ==
    /\ ConfirmPhase
    /\ atMount.storage # JsNull
    /\ verify = "resolved"
    /\ envSteps.urlChanges = 1
    /\ href \in OtherHrefs
    /\ Settled
    /\ request = "none"

-----------------------------------------------------------------------------
(* Properties of the default transports *)

\* the chains getDefaultTransports was called for
GivenChains == IF props.chains = NoChains THEN DefaultChains ELSE props.chains

GivenIds == {GivenChains[i] : i \in 1..Len(GivenChains)}

\* 1 when the key is given, 0 when it is not
Given(key) == IF Missing(key) THEN 0 ELSE 1

\* t is a transport to a provider's URL, authenticated with key
Authenticated(t, key) == t # Public /\ Len(t.url) >= 2 /\ <<Last(t.url)>> = key

\* the list has a slot for each provider whose key is given, Alchemy before
\* Infura, and the public transport last
SlotsInOrder(list) ==
    /\ Len(list) = 1 + Given(props.alchemyId) + Given(props.infuraId)
    /\ Last(list) = Public
    /\ \A k \in 1..(Len(list) - 1) : list[k].type \in {"http", "webSocket"}

\* the chains the table has provider URLs for
ChainsWithRpcUrls == {ChainConfigs[i].id : i \in {j \in 1..Len(ChainConfigs) : ChainConfigs[j].hasRpcUrls}}

\* C18: once getDefaultTransports has returned, the result has one entry per
\* distinct chain id given, and every entry is a list with the Alchemy slot
\* first (iff an Alchemy key is given), the Infura slot next (iff an Infura
\* key is given) and the public transport last, of 1 + number of keys
\* entries; for a chain the table has provider URLs for, each slot is a
\* transport authenticated with that provider's key.
C18_FallbackOrder ==
    transports # NotCalled =>
        /\ DOMAIN transports[1] = GivenIds
        /\ \A c \in GivenIds :
               LET list == transports[1][c]
               IN  /\ SlotsInOrder(list)
                   /\ c \in ChainsWithRpcUrls =>
                          /\ Given(props.alchemyId) = 1 =>
                                 Authenticated(list[1], props.alchemyId)
                          /\ Given(props.infuraId) = 1 =>
                                 Authenticated(list[1 + Given(props.alchemyId)],
                                               props.infuraId)

\* getDefaultTransports has returned for both keys and a list naming a chain
\* of the table twice
C18_Witness ==
    /\ transports # NotCalled
    /\ Given(props.alchemyId) = 1 /\ Given(props.infuraId) = 1
    /\ props.chains = <<137, 137>>
    /\ Len(transports[1][137]) = 3

\* C19 as stated: a chain whose id is not in the table gets the list of the
\* public transport alone, whatever keys are given.
C19_AbsentChainPublicOnly ==
    transports # NotCalled =>
        \A c \in GivenIds \ TableIds : transports[1][c] = <<Public>>

\* what holds of C19: every entry of the list of such a chain is the public
\* transport, one entry more than keys are given
C19_AbsentChainAllPublic ==
    transports # NotCalled =>
        \A c \in GivenIds \ TableIds :
            /\ Len(transports[1][c]) = 1 + Given(props.alchemyId) + Given(props.infuraId)
            /\ \A k \in 1..Len(transports[1][c]) : transports[1][c][k] = Public

-----------------------------------------------------------------------------
(* The order of the flow's states *)

VerifySettled == verify \in {"resolved", "rejected"}

ShowsResult == screen.kind = "DONE" /\ verificationResponse.present

\* the page starts in CHECKING; once it shows another state it never shows
\* CHECKING again; a result that is set stays as it is; DONE is shown only
\* once verifyEmail has settled
StatesMoveForward ==
    /\ screen.kind = "CHECKING"
    /\ loading = TRUE
    /\ verificationResponse = NoResponse
    /\ [][screen.kind # "CHECKING" => screen'.kind # "CHECKING"]_vars
    /\ [][~loading => ~loading']_vars
    /\ [][verificationResponse.present => verificationResponse' = verificationResponse]_vars
    /\ [](screen.kind = "DONE" => VerifySettled /\ verificationResponse.present)

\* C20 as stated: the states only move forward, and in the confirmation
\* phase with state and email present, once verifyEmail has settled the flow
\* eventually shows DONE with a result.
C20_SettledLeadsToDone ==
    /\ StatesMoveForward
    /\ (ConfirmPhase /\ VerifySettled) ~> ShowsResult

\* C20: the states only move forward, and in the confirmation phase with
\* state and email present, once verifyEmail has settled on a page that is
\* still mounted the flow eventually shows DONE with a result, unless the
\* page is unmounted first.
C20_SettledLeadsToDoneWhileMounted ==
    /\ StatesMoveForward
    /\ (ConfirmPhase /\ VerifySettled /\ mounted) ~> (ShowsResult \/ ~mounted)

\* DONE with the failure result is still shown after Continue was clicked
C20_Witness ==
    /\ ConfirmPhase
    /\ verify = "rejected"
    /\ mounted
    /\ ShowsResult
    /\ verificationResponse = FailureResponse
    /\ envSteps.clicks = 1

-----------------------------------------------------------------------------
(* A verifyEmail call that outlives the page or the URL *)

\* C21: a pending verifyEmail is dropped neither by unmounting nor by a
\* change of the URL: it stays pending until it settles, and the step in
\* which it settles calls history.replaceState with the URL read at mount
\* without the three verification parameters, which becomes the current URL
\* whatever the URL was changed to in between.
C21_StaleUrlWritten ==
    /\ [][verify = "pending" => verify' \in {"pending", "resolved", "rejected"}]_vars
    /\ [][(verify = "pending" /\ verify' # "pending") =>
              /\ href' = ExpectedStripped(atMount.href)
              /\ Last(calls').api = "replaceState"
              /\ Last(calls').by = "flow"
              /\ Last(calls').a1 = href']_vars

\* the page was unmounted and the URL changed while verifyEmail was pending;
\* the call has rejected and the URL is the stripped URL of the mount again
C21_Witness ==
    /\ ~mounted
    /\ verify = "rejected"
    /\ envSteps.urlChanges = 1
    /\ atMount.href # ExpectedStripped(atMount.href)
    /\ href = ExpectedStripped(atMount.href)
    /\ screen.kind = "CHECKING"

-----------------------------------------------------------------------------
(* Properties of useConnect *)

FailedAttempts == {i \in 1..Len(attempts) : attempts[i].status = "failed"}

\* the calls of context.log made for the error of attempt i
LoggedFor(i) == {k \in 1..Len(logged) : logged[k].err.id = i}

\* C22: every connection error is logged exactly once, under its message,
\* or under 'Could not connect.' when the message is empty or missing,
\* except an error whose message is exactly 'User rejected request', which
\* is not logged; nothing else is logged; and the onError a caller gave in
\* the props of the hook is never invoked, the hook's own being invoked
\* once for every error.
C22_ErrorsLoggedOnce ==
    /\ \A i \in FailedAttempts :
           LET m == attempts[i].error.message
           IN  /\ m = UserRejected => LoggedFor(i) = {}
               /\ m # UserRejected =>
                      /\ Cardinality(LoggedFor(i)) = 1
                      /\ \A k \in LoggedFor(i) :
                             /\ logged[k].err.message = m
                             /\ logged[k].text = IF Missing(m) THEN <<"Could not connect.">>
                                                 ELSE m
               /\ Cardinality({k \in 1..Len(invoked) :
                                   invoked[k] = [callback |-> "onError",
                                                 of |-> UseConnectCallback, id |-> i]}) = 1
    /\ \A k \in 1..Len(logged) : logged[k].err.id \in FailedAttempts
    /\ \A k \in 1..Len(invoked) :
           invoked[k].callback = "onError" =>
               /\ invoked[k].of \in {UseConnectCallback, PerCallCallback}
               /\ invoked[k].id \in FailedAttempts

\* the caller gave an onError; one connection was rejected by the user and
\* one failed with an empty message, which alone was logged
C22_Witness ==
    /\ connectProps.mutation # <<>>
    /\ connectProps.mutation[1].onError = CallerCallback
    /\ Len(attempts) = 2
    /\ attempts[1].status = "failed" /\ attempts[1].error.message = UserRejected
    /\ attempts[2].status = "failed" /\ attempts[2].error.message = <<>>
    /\ Len(logged) = 1
    /\ logged[1].text = <<"Could not connect.">>

====
